---- MODULE Spec2Model ----
(***************************************************************************)
(* Model of the OKLCHGrade Blink kernel (the second, current kernel of     *)
(* src/blink/oklch_grade_kernel.cpp) and of the host that sets its knobs,  *)
(* supplies the hue-curve LUT image and invokes process() once per pixel.  *)
(*                                                                         *)
(* Arithmetic.  A float is modelled as a fixed-point integer: the integer  *)
(* n stands for n / One.  An angle in degrees is modelled in hundredths of *)
(* a degree: the integer n stands for n / Deg degrees.  Products and       *)
(* quotients round to the nearest unit.  NaN and Inf do not exist here.    *)
(***************************************************************************)
EXTENDS Integers, Sequences, FiniteSets

\* ---------------------------------------------------------------------------
\* Fixed-point representation of `float`
\* ---------------------------------------------------------------------------

\* the float 1.0f
One == 10000

\* one degree of hue
Deg == 100

Max(a, b) == IF a >= b THEN a ELSE b

Min(a, b) == IF a <= b THEN a ELSE b

Abs(a) == IF a < 0 THEN -a ELSE a

\* clamp(x, lo, hi) of the Blink math surface
Clamp(x, lo, hi) == Max(lo, Min(x, hi))

\* x * y for two floats (split so that no intermediate exceeds 2^31)
MulFix(x, y) ==
  LET q == x \div One
      r == x % One
      qy == y \div One
      ry == y % One
  IN  q * y + r * qy + ((r * ry + One \div 2) \div One)

\* x / y for two floats, y > 0
DivFix(x, y) == (x * One + y \div 2) \div y

\* a * b / c for an angle a (hundredths of a degree) and floats b, c > 0
MulDiv(a, b, c) == (a * b + c \div 2) \div c

\* x * x * x, as oklab_to_xyz computes it
Cube(x) == MulFix(MulFix(x, x), x)

RECURSIVE CbrtSearch(_, _, _)
CbrtSearch(x, lo, hi) ==
  IF lo >= hi THEN lo
  ELSE LET mid == (lo + hi + 1) \div 2
       IN  IF Cube(mid) <= x THEN CbrtSearch(x, mid, hi)
           ELSE CbrtSearch(x, lo, mid - 1)

\* pow(x, 1.0f / 3.0f) for x >= 0: the float nearest to the cube root
Pow13(x) ==
  LET r == CbrtSearch(x, 0, 4 * One)
  IN  IF x - Cube(r) <= Cube(r + 1) - x THEN r ELSE r + 1

RECURSIVE SqrtSearch(_, _, _)
SqrtSearch(n, lo, hi) ==
  IF lo >= hi THEN lo
  ELSE LET mid == (lo + hi + 1) \div 2
       IN  IF mid * mid <= n THEN SqrtSearch(n, mid, hi)
           ELSE SqrtSearch(n, lo, mid - 1)

\* sqrt(a*a + b*b) for two floats a, b
Hypot(a, b) ==
  LET n == a * a + b * b
      r == SqrtSearch(n, 0, 4 * One)
  IN  IF n - r * r <= (r + 1) * (r + 1) - n THEN r ELSE r + 1

\* sin at whole degrees 0..90
SinTab ==
  << 0, 175, 349, 523, 698, 872, 1045, 1219, 1392, 1564, 1736, 1908, 2079,
     2250, 2419, 2588, 2756, 2924, 3090, 3256, 3420, 3584, 3746, 3907, 4067,
     4226, 4384, 4540, 4695, 4848, 5000, 5150, 5299, 5446, 5592, 5736, 5878,
     6018, 6157, 6293, 6428, 6561, 6691, 6820, 6947, 7071, 7193, 7314, 7431,
     7547, 7660, 7771, 7880, 7986, 8090, 8192, 8290, 8387, 8480, 8572, 8660,
     8746, 8829, 8910, 8988, 9063, 9135, 9205, 9272, 9336, 9397, 9455, 9511,
     9563, 9613, 9659, 9703, 9744, 9781, 9816, 9848, 9877, 9903, 9925, 9945,
     9962, 9976, 9986, 9994, 9998, 10000 >>

\* sin of an angle in the first quadrant, 0 <= d <= 90 degrees
SinQ(d) ==
  LET i == d \div Deg
      f == d % Deg
  IN  IF f = 0 THEN SinTab[i + 1]
      ELSE SinTab[i + 1] + (((SinTab[i + 2] - SinTab[i + 1]) * f + Deg \div 2) \div Deg)

\* sin(h * pi / 180) for any angle h
SinDeg(h) ==
  LET m == h % (360 * Deg)
  IN  IF m <= 90 * Deg THEN SinQ(m)
      ELSE IF m <= 180 * Deg THEN SinQ(180 * Deg - m)
      ELSE IF m <= 270 * Deg THEN -SinQ(m - 180 * Deg)
      ELSE -SinQ(360 * Deg - m)

\* cos(h * pi / 180) for any angle h
CosDeg(h) == SinDeg(h + 90 * Deg)

RECURSIVE AtanSearch(_, _, _, _)
AtanSearch(y, x, lo, hi) ==
  IF lo >= hi THEN lo
  ELSE LET mid == (lo + hi + 1) \div 2
       IN  IF y * CosDeg(mid) - x * SinDeg(mid) >= 0 THEN AtanSearch(y, x, mid, hi)
           ELSE AtanSearch(y, x, lo, mid - 1)

\* atan2(y, x) * 57.2957795131f: the angle of (x, y) in degrees, in (-180, 180]
Atan2Deg(y, x) ==
  IF x = 0 /\ y = 0 THEN 0
  ELSE LET t == AtanSearch(Abs(y), Abs(x), 0, 90 * Deg)
       IN  IF x >= 0 /\ y >= 0 THEN t
           ELSE IF x < 0 /\ y >= 0 THEN 180 * Deg - t
           ELSE IF x < 0 THEN t - 180 * Deg
           ELSE -t

\* ---------------------------------------------------------------------------
\* Helpers of the kernel
\* ---------------------------------------------------------------------------

\* the cube root of the magnitude, the sign dropped
signed_cbrt_Magnitude(x) ==
  IF x = 0 THEN 0 ELSE Pow13(Abs(x))

signed_cbrt(x) ==
  IF x = 0 THEN 0
  ELSE IF x > 0 THEN Pow13(x) ELSE -Pow13(-x)

clamp01(x) == Clamp(x, 0, One)

smooth_ramp(edge0, edge1, x) ==
  LET t == Clamp(DivFix(x - edge0, edge1 - edge0), 0, One)
  IN  MulFix(MulFix(t, t), 3 * One - 2 * t)

\* h - 360 * floor(h / 360), then the guard for a negative remainder
wrap_hue_deg(h) ==
  LET wrapped == h - (360 * Deg) * (h \div (360 * Deg))
  IN  IF wrapped < 0 THEN wrapped + 360 * Deg ELSE wrapped

\* the difference of the wrapped angles, not folded into [-180, 180]
hue_delta_Unfolded(a, b) == wrap_hue_deg(b) - wrap_hue_deg(a)

hue_delta(a, b) ==
  LET d0 == wrap_hue_deg(b) - wrap_hue_deg(a)
      d1 == IF d0 > 180 * Deg THEN d0 - 360 * Deg ELSE d0
  IN  IF d1 < -180 * Deg THEN d1 + 360 * Deg ELSE d1

hue_band_weight(current_hue, centre_deg, half_width_deg) ==
  LET delta == hue_delta(current_hue, centre_deg)
      norm == DivFix(delta, half_width_deg)
  IN  IF norm < -One \/ norm > One THEN 0
      ELSE (One + CosDeg(MulDiv(180 * Deg, norm, One))) \div 2

\* ---------------------------------------------------------------------------
\* Colour space conversions (coefficients to four decimals)
\* ---------------------------------------------------------------------------

linear_srgb_to_xyz(rgb) ==
  << MulFix(4124, rgb[1]) + MulFix(3576, rgb[2]) + MulFix(1805, rgb[3]),
     MulFix(2126, rgb[1]) + MulFix(7152, rgb[2]) + MulFix(722, rgb[3]),
     MulFix(193, rgb[1]) + MulFix(1192, rgb[2]) + MulFix(9505, rgb[3]) >>

xyz_to_linear_srgb(xyz) ==
  << MulFix(32410, xyz[1]) + MulFix(-15374, xyz[2]) + MulFix(-4986, xyz[3]),
     MulFix(-9692, xyz[1]) + MulFix(18760, xyz[2]) + MulFix(416, xyz[3]),
     MulFix(556, xyz[1]) + MulFix(-2040, xyz[2]) + MulFix(10570, xyz[3]) >>

xyz_to_oklab(xyz) ==
  LET l == MulFix(8190, xyz[1]) + MulFix(3619, xyz[2]) + MulFix(-1289, xyz[3])
      m == MulFix(330, xyz[1]) + MulFix(9293, xyz[2]) + MulFix(361, xyz[3])
      s == MulFix(482, xyz[1]) + MulFix(2642, xyz[2]) + MulFix(6335, xyz[3])
      l_ == signed_cbrt(l)
      m_ == signed_cbrt(m)
      s_ == signed_cbrt(s)
  IN  << MulFix(2105, l_) + MulFix(7936, m_) + MulFix(-41, s_),
         MulFix(19780, l_) + MulFix(-24286, m_) + MulFix(4506, s_),
         MulFix(259, l_) + MulFix(7828, m_) + MulFix(-8087, s_) >>

oklab_to_xyz(lab) ==
  LET l_ == lab[1] + MulFix(3963, lab[2]) + MulFix(2158, lab[3])
      m_ == lab[1] + MulFix(-1056, lab[2]) + MulFix(-639, lab[3])
      s_ == lab[1] + MulFix(-895, lab[2]) + MulFix(-12915, lab[3])
      l == Cube(l_)
      m == Cube(m_)
      s == Cube(s_)
  IN  << MulFix(12269, l) + MulFix(-5578, m) + MulFix(2814, s),
         MulFix(-406, l) + MulFix(11123, m) + MulFix(-717, s),
         MulFix(-764, l) + MulFix(-4215, m) + MulFix(15869, s) >>

\* c <= 0.000004f
Epsilon == (4 * One) \div 1000000

oklab_to_oklch(lab) ==
  LET c == Hypot(lab[2], lab[3])
      h0 == Atan2Deg(lab[3], lab[2])
      h1 == IF h0 < 0 THEN h0 + 360 * Deg ELSE h0
  IN  << lab[1], c, IF c <= Epsilon THEN 0 ELSE h1 >>

oklch_to_oklab(lch) ==
  << lch[1], MulFix(lch[2], CosDeg(lch[3])), MulFix(lch[2], SinDeg(lch[3])) >>

\* ---------------------------------------------------------------------------
\* Parameters (define()) and the hue-curve LUT image
\* ---------------------------------------------------------------------------

\* the values define() gives the knobs
Defaults ==
  [ l_gain |-> One, l_offset |-> 0, l_contrast |-> One, l_pivot |-> (18 * One) \div 100,
    c_gain |-> One, c_offset |-> 0,
    hue_shift_deg |-> 0, hue_chroma_threshold |-> (5 * One) \div 100,
    hue_shift_red |-> 0, hue_shift_yellow |-> 0, hue_shift_green |-> 0,
    hue_shift_cyan |-> 0, hue_shift_blue |-> 0, hue_shift_magenta |-> 0,
    hue_target_deg |-> 0, hue_target_shift |-> 0, hue_target_falloff_deg |-> 25 * Deg,
    mix |-> One, clamp_output |-> FALSE, bypass |-> FALSE, debug_mode |-> 0,
    hue_curves_enable |-> FALSE, hue_lut_width |-> 360, hue_lut_connected |-> FALSE ]

Knobs == DOMAIN Defaults

\* width of the image wired to the hueLUT input
LutW == 4

\* a LUT image: LutW entries, each an (r, g, b) triple
FlatLUT(v) == [i \in 1..LutW |-> <<v, v, v>>]

\* the curves as the gizmo creates them: flat at y = 0.5
DefaultLUT == FlatLUT(One \div 2)

\* curves a user has drawn: every channel rising with hue, entries in [0, 1]
RampLUT ==
  [i \in 1..LutW |->
     << ((i - 1) * One) \div (LutW - 1),
        (i * One) \div LutW,
        ((LutW - i + 1) * One) \div (LutW + 1) >>]

\* an image that is not the output of the curve nodes: entries outside [0, 1]
WildLUT ==
  [i \in 1..LutW |->
     IF i % 2 = 1 THEN << (3 * One) \div 2, -(One \div 2), 2 * One >>
     ELSE << -(One \div 4), (5 * One) \div 4, -(One \div 10) >>]

LutSet == { DefaultLUT, RampLUT, WildLUT }

\* bilinear(hueLUT, x + 0.5f, 0.5f) on an eEdgeClamped image of one row:
\* linear interpolation between the entries at floor(x) and floor(x) + 1,
\* indices clamped to the image
bilinear(lut, x) ==
  LET i0 == x \div One
      f == x % One
      e0 == lut[Clamp(i0, 0, Len(lut) - 1) + 1]
      e1 == lut[Clamp(i0 + 1, 0, Len(lut) - 1) + 1]
  IN  [c \in 1..3 |-> ((One - f) * e0[c] + f * e1[c] + One \div 2) \div One]

\* table position lut_x of sample_hue_lut
lut_pos(p, hue_deg) ==
  LET w == Max(p.hue_lut_width, 2)
      norm == MulDiv(wrap_hue_deg(hue_deg), One, 360 * Deg)
  IN  norm * (w - 1)

sample_hue_lut(p, lut, hue_deg) == bilinear(lut, lut_pos(p, hue_deg))

\* the gate of an earlier revision, hue_curves_enable && hue_lut_width > 0,
\* which does not ask whether the LUT is connected
CurveGate_Unconnected(p) == p.hue_curves_enable /\ p.hue_lut_width > 0

\* hue_curves_enable && hue_lut_connected && hue_lut_width > 1
CurveGate(p) == p.hue_curves_enable /\ p.hue_lut_connected /\ p.hue_lut_width > 1

\* ---------------------------------------------------------------------------
\* process()
\* ---------------------------------------------------------------------------

\* a pixel is <<r, g, b, a>>
rgb_of(px) == << px[1], px[2], px[3] >>

\* in_rgb: the source channels, each through max(0.0f, .)
in_rgb_of(src_pixel) ==
  << Max(0, src_pixel[1]), Max(0, src_pixel[2]), Max(0, src_pixel[3]) >>

\* a channel value n / 100
F(n) == (n * One) \div 100

\* source pixels: the reference vectors of tests/oklch_reference_test_vectors.md,
\* a near-neutral pixel, and one saturated pixel on each band centre
\* (0, 85, 145, 195, 265, 325 degrees)
Pixels ==
  { << -F(50), -F(10), 0, One >>,
    << 0, 0, 0, One >>,
    << F(18), F(18), F(18), One >>,
    << One, One, One, One >>,
    << 2 * One, One, F(25), One >>,
    << 4 * One, F(50), -F(20), F(50) >>,
    << One, F(25), F(10), One >>,
    << F(30), F(20), F(10), One >>,
    << F(20), F(30), F(40), F(37) >>,
    << One, 0, 0, One >>,
    << F(20), F(18), F(25), F(50) >>,
    << F(30), F(14), F(18), One >>,
    << F(62), F(50), F(30), One >>,
    << F(60), F(84), F(60), 0 >>,
    << F(4), F(26), F(26), One >>,
    << F(6), F(18), F(88), One >>,
    << F(64), F(4), F(72), F(25) >> }

\* the forward conversion of in_rgb, for every source pixel of the frame
forward_lch ==
  [px \in Pixels |-> oklab_to_oklch(xyz_to_oklab(linear_srgb_to_xyz(in_rgb_of(px))))]

\* current_lch of the invocation on src_pixel
current_lch_of(src_pixel) == forward_lch[src_pixel]

\* graded_L with the contrast knob used as it is, a negative value included
tone_L_RawContrast(p, L) ==
  LET g0 == MulFix(L, p.l_gain) + p.l_offset
      safe_pivot == Max(p.l_pivot, 0)
      g1 == MulFix(g0 - safe_pivot, p.l_contrast) + safe_pivot
  IN  IF g1 < 0 THEN 0 ELSE g1

\* graded_L after gain, offset, contrast about the pivot and the floor at 0
tone_L(p, L) ==
  LET g0 == MulFix(L, p.l_gain) + p.l_offset
      safe_pivot == Max(p.l_pivot, 0)
      safe_contrast == Max(p.l_contrast, 0)
      g1 == MulFix(g0 - safe_pivot, safe_contrast) + safe_pivot
  IN  IF g1 < 0 THEN 0 ELSE g1

\* graded_C after gain and offset, without the floor at 0
tone_C_Unfloored(p, C) == MulFix(C, p.c_gain) + p.c_offset

\* graded_C after gain, offset and the floor at 0
tone_C(p, C) ==
  LET g == MulFix(C, p.c_gain) + p.c_offset
  IN  IF g < 0 THEN 0 ELSE g

\* the curve multipliers applied without the second floor at 0
curve_LC_Unfloored(p, lut, lch) ==
  LET gL == tone_L(p, lch[1])
      gC == tone_C(p, lch[2])
  IN  IF CurveGate(p)
      THEN LET s == sample_hue_lut(p, lut, lch[3])
               l_curve_mult == s[3] * 2
               c_curve_mult == s[2] * 2
           IN  << MulFix(gL, l_curve_mult), MulFix(gC, c_curve_mult) >>
      ELSE << gL, gC >>

\* Hue Curves: per-hue L/C multipliers; the result is <<graded_L, graded_C>>
curve_LC(p, lut, lch) ==
  LET gL == tone_L(p, lch[1])
      gC == tone_C(p, lch[2])
  IN  IF CurveGate(p)
      THEN LET s == sample_hue_lut(p, lut, lch[3])
               l_curve_mult == s[3] * 2
               c_curve_mult == s[2] * 2
           IN  << Max(MulFix(gL, l_curve_mult), 0), Max(MulFix(gC, c_curve_mult), 0) >>
      ELSE << gL, gC >>

\* a chroma_weight that does not fade: 1 at every chroma
chroma_weight_of_Full(p, C) == One

\* chroma_weight taken from the chroma after gain and offset
chroma_weight_of_Graded(p, C) ==
  smooth_ramp(0, Max(p.hue_chroma_threshold, One \div 10000), tone_C(p, C))

\* the chroma weight with the threshold floored to 0.1
chroma_weight_of_CoarseFloor(p, C) ==
  smooth_ramp(0, Max(p.hue_chroma_threshold, One \div 10), C)

\* chroma_weight = smooth_ramp(0, max(hue_chroma_threshold, 0.0001f), C)
chroma_weight_of(p, C) ==
  smooth_ramp(0, Max(p.hue_chroma_threshold, One \div 10000), C)

\* one term shift * weight * chroma_weight of total_hue_shift
band_term(shift, weight, cw) == MulDiv(MulDiv(shift, weight, One), cw, One)

\* the contribution of the red band: the lobe at 0 and the second lobe at 360
red_term(p, orig_H, cw) ==
  band_term(p.hue_shift_red, hue_band_weight(orig_H, 0, 60 * Deg), cw)
    + band_term(p.hue_shift_red, hue_band_weight(orig_H, 360 * Deg, 60 * Deg), cw)

\* the contribution of the five other fixed bands
bands_term(p, orig_H, cw) ==
  band_term(p.hue_shift_yellow, hue_band_weight(orig_H, 85 * Deg, 60 * Deg), cw)
    + band_term(p.hue_shift_green, hue_band_weight(orig_H, 145 * Deg, 60 * Deg), cw)
    + band_term(p.hue_shift_cyan, hue_band_weight(orig_H, 195 * Deg, 60 * Deg), cw)
    + band_term(p.hue_shift_blue, hue_band_weight(orig_H, 265 * Deg, 60 * Deg), cw)
    + band_term(p.hue_shift_magenta, hue_band_weight(orig_H, 325 * Deg, 60 * Deg), cw)

\* the target correction with the falloff floored at one degree
target_term_Floor1(p, orig_H, cw) ==
  LET safe_target_falloff == Max(p.hue_target_falloff_deg, Deg)
      target_weight ==
        MulFix(hue_band_weight(orig_H, wrap_hue_deg(p.hue_target_deg), safe_target_falloff), cw)
  IN  MulDiv(p.hue_target_shift, target_weight, One)

\* the target hue correction: hue_target_shift * target_weight
target_term(p, orig_H, cw) ==
  LET safe_target_falloff == Max(p.hue_target_falloff_deg, Deg \div 10)
      target_weight ==
        MulFix(hue_band_weight(orig_H, wrap_hue_deg(p.hue_target_deg), safe_target_falloff), cw)
  IN  MulDiv(p.hue_target_shift, target_weight, One)

\* the curve hue offset sampled at the hue after the global shift
curve_term_PostShift(p, lut, orig_H, cw) ==
  IF CurveGate(p)
  THEN LET s == sample_hue_lut(p, lut, orig_H + MulDiv(p.hue_shift_deg, cw, One))
           curve_hue_shift == MulDiv(360 * Deg, s[1] - One \div 2, One)
       IN  MulDiv(curve_hue_shift, cw, One)
  ELSE 0

\* the curve hue offset decoded as lut.x * 360, without the 0.5 centre
curve_term_Uncentred(p, lut, orig_H, cw) ==
  IF CurveGate(p)
  THEN LET s == sample_hue_lut(p, lut, orig_H)
           curve_hue_shift == MulDiv(360 * Deg, s[1], One)
       IN  MulDiv(curve_hue_shift, cw, One)
  ELSE 0

\* Hue Curves: per-hue hue offset, curve_hue_shift * chroma_weight
curve_term(p, lut, orig_H, cw) ==
  IF CurveGate(p)
  THEN LET s == sample_hue_lut(p, lut, orig_H)
           curve_hue_shift == MulDiv(360 * Deg, s[1] - One \div 2, One)
       IN  MulDiv(curve_hue_shift, cw, One)
  ELSE 0

\* total_hue_shift at the point graded_H is computed
total_hue_shift_of(p, lut, lch) ==
  LET cw == chroma_weight_of(p, lch[2])
  IN  MulDiv(p.hue_shift_deg, cw, One)
        + red_term(p, lch[3], cw)
        + bands_term(p, lch[3], cw)
        + target_term(p, lch[3], cw)
        + curve_term(p, lut, lch[3], cw)

\* Reconstruct: OKLCH -> OKLab -> XYZ -> linear RGB, then the optional clamp
reconstruct(p, L, C, H) ==
  LET g == xyz_to_linear_srgb(oklab_to_xyz(oklch_to_oklab(<< L, C, H >>)))
  IN  IF p.clamp_output THEN << clamp01(g[1]), clamp01(g[2]), clamp01(g[3]) >> ELSE g

\* the blend trusting mix: in_rgb + (graded_rgb - in_rgb) * mix
blend_Unclamped(p, in_rgb, graded_rgb) ==
  [c \in 1..3 |-> in_rgb[c] + MulFix(graded_rgb[c] - in_rgb[c], p.mix)]

\* final_rgb = in_rgb + (graded_rgb - in_rgb) * clamp(mix, 0, 1)
blend(p, in_rgb, graded_rgb) ==
  LET t == Clamp(p.mix, 0, One)
  IN  [c \in 1..3 |-> in_rgb[c] + MulFix(graded_rgb[c] - in_rgb[c], t)]

\* an opaque alpha instead of the alpha of the source
alpha_out_Opaque(src_pixel) == One

\* the alpha process() writes
alpha_out(src_pixel) == src_pixel[4]

\* the bypass branch writing in_rgb, the channels floored at 0
bypass_out_Floored(src_pixel) ==
  << Max(0, src_pixel[1]), Max(0, src_pixel[2]), Max(0, src_pixel[3]), src_pixel[4] >>

\* what the bypass branch writes
bypass_out(src_pixel) == src_pixel

\* the hue arguments of the calls of sample_hue_lut, in program order
lut_reads(p, orig_H) ==
  IF CurveGate(p)
  THEN << orig_H, orig_H >> \o (IF p.debug_mode = 5 THEN << orig_H >> ELSE << >>)
  ELSE << >>

\* the locals of an invocation that returned from the bypass branch
NoLocals ==
  [ lch |-> << 0, 0, 0 >>, graded_L |-> 0, graded_C |-> 0, chroma_weight |-> 0,
    total_hue_shift |-> 0, graded_H |-> 0 ]

\* a grey pixel << v, v, v, a >>, as the debug modes write it
grey(v, a) == << v, v, v, a >>

\* the branch of process() that writes the pixel, past the bypass test
path_of(p) ==
  IF p.debug_mode \in 1..5
  THEN << "debug1", "debug2", "debug3", "debug4", "debug5" >>[p.debug_mode]
  ELSE "blend"

\* debug mode 5 writing the decoded corrections: the hue shift in degrees and
\* the two multipliers
debug_lut_Decoded(p, lut, orig_H, a) ==
  IF CurveGate(p)
  THEN LET s == sample_hue_lut(p, lut, orig_H)
       IN  << 360 * (s[1] - One \div 2), s[2] * 2, s[3] * 2, a >>
  ELSE grey(One \div 2, a)

\* debug mode 5: the LUT sample at the original hue, or mid-grey behind the gate
debug_lut(p, lut, orig_H, a) ==
  IF CurveGate(p)
  THEN LET s == sample_hue_lut(p, lut, orig_H)
       IN  << s[1], s[2], s[3], a >>
  ELSE grey(One \div 2, a)

\* debug_mode = 0 (and any other value): reconstruct, clamp, blend
graded_pixel(p, src_pixel, graded_L, graded_C, graded_H) ==
  LET final_rgb == blend(p, in_rgb_of(src_pixel), reconstruct(p, graded_L, graded_C, graded_H))
  IN  << final_rgb[1], final_rgb[2], final_rgb[3], alpha_out(src_pixel) >>

\* the debug modes placed after the clamp: mode 1 obeys clamp_output
dst_pixel_Clamped(p, lut, src_pixel, orig_H, graded_L, graded_C, cw, graded_H) ==
  IF p.debug_mode = 1
  THEN grey(IF p.clamp_output THEN clamp01(graded_L) ELSE graded_L, alpha_out(src_pixel))
  ELSE IF p.debug_mode = 2 THEN grey(graded_C, alpha_out(src_pixel))
  ELSE IF p.debug_mode = 3
  THEN grey(MulDiv(graded_H, One, 360 * Deg), alpha_out(src_pixel))
  ELSE IF p.debug_mode = 4 THEN grey(cw, alpha_out(src_pixel))
  ELSE IF p.debug_mode = 5 THEN debug_lut(p, lut, orig_H, alpha_out(src_pixel))
  ELSE graded_pixel(p, src_pixel, graded_L, graded_C, graded_H)

\* the pixel written to dst once the grade is computed: the debug modes, then
\* the graded pixel
dst_pixel(p, lut, src_pixel, orig_H, graded_L, graded_C, cw, graded_H) ==
  IF p.debug_mode = 1 THEN grey(graded_L, alpha_out(src_pixel))
  ELSE IF p.debug_mode = 2 THEN grey(graded_C, alpha_out(src_pixel))
  ELSE IF p.debug_mode = 3
  THEN grey(MulDiv(graded_H, One, 360 * Deg), alpha_out(src_pixel))
  ELSE IF p.debug_mode = 4 THEN grey(cw, alpha_out(src_pixel))
  ELSE IF p.debug_mode = 5 THEN debug_lut(p, lut, orig_H, alpha_out(src_pixel))
  ELSE graded_pixel(p, src_pixel, graded_L, graded_C, graded_H)

\* the locals of an invocation at its return
locals(lch, lc, cw, total) ==
  [ lch |-> lch, graded_L |-> lc[1], graded_C |-> lc[2], chroma_weight |-> cw,
    total_hue_shift |-> total, graded_H |-> wrap_hue_deg(lch[3] + total) ]

\* the result of an invocation whose locals are loc
result(p, lut, src_pixel, loc) ==
  [ out |-> dst_pixel(p, lut, src_pixel, loc.lch[3], loc.graded_L, loc.graded_C,
                      loc.chroma_weight, loc.graded_H),
    path |-> path_of(p), reads |-> lut_reads(p, loc.lch[3]), loc |-> loc ]

\* the grade of a pixel whose forward conversion is lch
grade(p, lut, src_pixel, lch) ==
  result(p, lut, src_pixel,
         locals(lch, curve_LC(p, lut, lch), chroma_weight_of(p, lch[2]),
                total_hue_shift_of(p, lut, lch)))

\* process() on one source pixel: the pixel written to dst, the branch that
\* wrote it, the LUT samples taken and the locals at the return
process(p, lut, src_pixel) ==
  IF p.bypass
  THEN [ out |-> bypass_out(src_pixel), path |-> "bypass", reads |-> << >>,
         loc |-> NoLocals ]
  ELSE grade(p, lut, src_pixel, current_lch_of(src_pixel))

\* ---------------------------------------------------------------------------
\* The host: knob edits, the LUT image, one process() call per pixel
\* ---------------------------------------------------------------------------

VARIABLES params, hueLUT, src, dst, path, reads, loc

vars == << params, hueLUT, src, dst, path, reads, loc >>

\* the value before the first invocation
NoPixel == << >>

\* the values the host gives a knob
KnobValues(k) ==
  CASE k = "l_gain" -> { One, 2 * One }
    [] k = "l_offset" -> { 0, -F(50) }
    [] k = "l_contrast" -> { One, 0 }
    [] k = "l_pivot" -> { F(18), F(50) }
    [] k = "c_gain" -> { One, 2 * One }
    [] k = "c_offset" -> { 0, -10 * One }
    [] k = "hue_shift_deg" -> { 0, 90 * Deg }
    [] k = "hue_chroma_threshold" -> { F(5), 0 }
    [] k = "hue_shift_red" -> { 0, 90 * Deg }
    [] k = "hue_shift_yellow" -> { 0, 30 * Deg }
    [] k = "hue_shift_green" -> { 0, -40 * Deg }
    [] k = "hue_shift_cyan" -> { 0, 30 * Deg }
    [] k = "hue_shift_blue" -> { 0, 30 * Deg }
    [] k = "hue_shift_magenta" -> { 0, -45 * Deg }
    [] k = "hue_target_deg" -> { 0, 385 * Deg }
    [] k = "hue_target_shift" -> { 0, 20 * Deg }
    [] k = "hue_target_falloff_deg" -> { 25 * Deg, 0 }
    [] k = "mix" -> { One, 0, F(50) }
    [] k = "clamp_output" -> BOOLEAN
    [] k = "bypass" -> BOOLEAN
    [] k = "debug_mode" -> 0..6
    [] k = "hue_curves_enable" -> BOOLEAN
    [] k = "hue_lut_width" -> { 360, 1, LutW }
    [] k = "hue_lut_connected" -> BOOLEAN

\* how many knob edits away from a fresh node the host goes
MaxTweaks == 2

\* the edits that separate (p, lut) from a fresh node: one per knob off its
\* default and one for a drawn LUT; switching the curves on is one edit, the
\* enable knob together with the connection the gizmo's callback reports
TweakCount(p, lut) ==
  Cardinality({ k \in Knobs : p[k] # Defaults[k] })
    + (IF lut # DefaultLUT THEN 1 ELSE 0)
    - (IF p.hue_curves_enable /\ p.hue_lut_connected THEN 1 ELSE 0)

Init ==
  /\ params = Defaults
  /\ hueLUT = DefaultLUT
  /\ src = NoPixel
  /\ dst = NoPixel
  /\ path = "none"
  /\ reads = << >>
  /\ loc = NoLocals

\* between invocations the user (or a callback of the gizmo) sets one knob
SetKnob(k, v) ==
  /\ src = NoPixel
  /\ v # params[k]
  /\ TweakCount([params EXCEPT ![k] = v], hueLUT) <= MaxTweaks
  /\ params' = [params EXCEPT ![k] = v]
  /\ UNCHANGED << hueLUT, src, dst, path, reads, loc >>

\* between invocations the curve nodes deliver a new LUT image
SetLUT(lut) ==
  /\ src = NoPixel
  /\ lut # hueLUT
  /\ TweakCount(params, lut) <= MaxTweaks
  /\ hueLUT' = lut
  /\ UNCHANGED << params, src, dst, path, reads, loc >>

\* the host invokes process() on one pixel
Process(px) ==
  LET r == process(params, hueLUT, px)
  IN  /\ src = NoPixel
      /\ src' = px
      /\ dst' = r.out
      /\ path' = r.path
      /\ reads' = r.reads
      /\ loc' = r.loc
      /\ UNCHANGED << params, hueLUT >>

\* the invocation is over: the host takes the pixel written
Release ==
  /\ src # NoPixel
  /\ src' = NoPixel
  /\ dst' = NoPixel
  /\ path' = "none"
  /\ reads' = << >>
  /\ loc' = NoLocals
  /\ UNCHANGED << params, hueLUT >>

Next ==
  \/ \E k \in Knobs : \E v \in KnobValues(k) : SetKnob(k, v)
  \/ \E lut \in LutSet : SetLUT(lut)
  \/ \E px \in Pixels : Process(px)
  \/ Release

Spec == Init /\ [][Next]_vars

\* process() has run on src under the current knobs and LUT
Rendered == dst # NoPixel

\* ---------------------------------------------------------------------------
\* Properties
\* ---------------------------------------------------------------------------

\* the rounding error the fixed-point arithmetic leaves in a colour round trip
Tol == One \div 400

Near(x, y) == Abs(x - y) <= Tol

\* the knobs the grade leaves alone: gains 1, offsets 0, contrast 1, shifts 0
NoGrade(p) ==
  /\ p.l_gain = One /\ p.l_offset = 0 /\ p.l_contrast = One
  /\ p.c_gain = One /\ p.c_offset = 0
  /\ p.hue_shift_deg = 0 /\ p.hue_target_shift = 0
  /\ p.hue_shift_red = 0 /\ p.hue_shift_yellow = 0 /\ p.hue_shift_green = 0
  /\ p.hue_shift_cyan = 0 /\ p.hue_shift_blue = 0 /\ p.hue_shift_magenta = 0

\* the three gating conditions of the curve feature, stated on the knobs
GateHolds(p) == p.hue_curves_enable /\ p.hue_lut_connected /\ p.hue_lut_width > 1

\* C1: whatever the knobs and the LUT, the alpha process() writes is the
\* alpha of the source pixel.
AlphaPreserved == Rendered => dst[4] = src[4]

\* a pixel with a fractional alpha went through a debug branch
AlphaPreservedWitness ==
  Rendered /\ src[4] \notin { 0, One } /\ path \in { "debug3", "debug5" }

\* the knobs with bypass set and the curve switched on
BypassedWithCurve(p) ==
  [p EXCEPT !.bypass = TRUE, !.hue_curves_enable = TRUE,
            !.hue_lut_connected = TRUE, !.hue_lut_width = LutW]

\* C2: with bypass set the pixel written is the source pixel in all four
\* channels, whatever the other knobs, and the hue LUT is not sampled; this
\* also holds of the same invocation with the curve gate open.
BypassIsIdentity ==
  Rendered =>
    /\ params.bypass => (dst = src /\ reads = << >>)
    /\ LET r == process(BypassedWithCurve(params), hueLUT, src)
       IN  r.out = src /\ r.reads = << >>

\* bypass ran on a pixel with a negative channel while a debug mode was selected
BypassIsIdentityWitness ==
  Rendered /\ params.bypass /\ src[1] < 0 /\ params.debug_mode # 0

\* the curve is disabled, or gated on with the flat table
CurveNeutral == ~GateHolds(params) \/ hueLUT = DefaultLUT

\* C3 (as claimed): with no grade, mix = 1, no clamp, no bypass, debug mode 0
\* and a neutral curve the output RGB is the input RGB within the rounding
\* tolerance, for every input pixel, negative channels included.
FullPipelineIdentity ==
  (Rendered /\ NoGrade(params) /\ params.mix = One /\ ~params.clamp_output
     /\ ~params.bypass /\ params.debug_mode = 0 /\ CurveNeutral)
    => \A c \in 1..3 : Near(dst[c], src[c])

\* C4 (as claimed): with mix = 0, no bypass and debug mode 0 the output RGB
\* is the RGB of the source pixel.
MixZeroIsInput ==
  (Rendered /\ params.mix = 0 /\ ~params.bypass /\ params.debug_mode = 0)
    => rgb_of(dst) = rgb_of(src)

\* C5 (as claimed): a global hue shift of s + 360 gives the output of a
\* global hue shift of s, for every pixel, within the rounding tolerance.
HueWrapEquivalence ==
  (Rendered /\ ~params.bypass)
    => LET r == process([params EXCEPT !.hue_shift_deg = @ + 360 * Deg], hueLUT, src)
       IN  \A c \in 1..4 : Near(r.out[c], dst[c])

\* C6 (as claimed): with clamp_output set, no bypass and debug mode 0 every
\* RGB channel of the output is in [0, 1].
ClampedOutputInRange ==
  (Rendered /\ params.clamp_output /\ ~params.bypass /\ params.debug_mode = 0)
    => \A c \in 1..3 : 0 <= dst[c] /\ dst[c] <= One

\* the six fixed bands: centre and shift knob
BandCentres ==
  { << 0, "hue_shift_red" >>, << 85 * Deg, "hue_shift_yellow" >>,
    << 145 * Deg, "hue_shift_green" >>, << 195 * Deg, "hue_shift_cyan" >>,
    << 265 * Deg, "hue_shift_blue" >>, << 325 * Deg, "hue_shift_magenta" >> }

\* every hue shift other than that of band knob k is zero, the curve adds none
OnlyBand(p, k) ==
  /\ p.hue_shift_deg = 0 /\ p.hue_target_shift = 0
  /\ \A b \in BandCentres : b[2] # k => p[b[2]] = 0

\* C7 (as claimed): a pixel on the centre of a band, with chroma_weight 1 and
\* every other shift zero, is shifted by exactly that band's shift magnitude.
BandCentreShift ==
  (Rendered /\ path # "bypass" /\ loc.chroma_weight = One /\ CurveNeutral)
    => \A b \in BandCentres :
         (loc.lch[3] = b[1] /\ OnlyBand(params, b[2]))
           => loc.total_hue_shift = params[b[2]]

\* C8 (as claimed): a pixel whose chroma is below hue_chroma_threshold keeps
\* its hue, whatever the hue knobs.
LowChromaHueUntouched ==
  (Rendered /\ path # "bypass" /\ loc.lch[2] < params.hue_chroma_threshold)
    => loc.graded_H = loc.lch[3]

\* the settings of the three gating knobs that close the gate for one reason
GateClosed ==
  { [ hue_curves_enable |-> FALSE, hue_lut_connected |-> TRUE, hue_lut_width |-> LutW ],
    [ hue_curves_enable |-> TRUE, hue_lut_connected |-> FALSE, hue_lut_width |-> LutW ],
    [ hue_curves_enable |-> TRUE, hue_lut_connected |-> TRUE, hue_lut_width |-> 1 ],
    [ hue_curves_enable |-> TRUE, hue_lut_connected |-> TRUE, hue_lut_width |-> 0 ] }

WithGate(p, g) ==
  [p EXCEPT !.hue_curves_enable = g.hue_curves_enable,
            !.hue_lut_connected = g.hue_lut_connected,
            !.hue_lut_width = g.hue_lut_width]

\* a LUT image other than lut
OtherLUT(lut) == IF lut = WildLUT THEN RampLUT ELSE WildLUT

\* C9: with the curve gate closed the LUT is not sampled, and the pixel
\* written is the one written when the gate is closed for any other reason
\* and the LUT image is another one, in every debug mode.
CurveGating ==
  (Rendered /\ ~GateHolds(params))
    => /\ reads = << >>
       /\ \A g \in GateClosed :
            LET r == process(WithGate(params, g), OtherLUT(hueLUT), src)
            IN  r.out = dst /\ r.reads = << >>

\* debug mode 5 ran with the curve enabled but the LUT not connected
CurveGatingWitness ==
  Rendered /\ params.debug_mode = 5 /\ params.hue_curves_enable
    /\ ~params.hue_lut_connected /\ dst = << One \div 2, One \div 2, One \div 2, src[4] >>

\* the same invocation with the curve gate open at LUT width w
CurveOn(p, w) ==
  [p EXCEPT !.hue_curves_enable = TRUE, !.hue_lut_connected = TRUE, !.hue_lut_width = w]

\* the same invocation with the curve disabled
CurveOff(p) == [p EXCEPT !.hue_curves_enable = FALSE]

\* C10: with the table flat at 0.5, opening the curve gate changes neither
\* the graded (L, C, H) nor the pixel written, whatever the other knobs.
FlatLUTIsIdentity ==
  (Rendered /\ hueLUT = DefaultLUT /\ path # "bypass")
    => LET off == IF GateHolds(params)
                  THEN process(CurveOff(params), hueLUT, src)
                  ELSE [ out |-> dst, loc |-> loc ]
       IN  /\ \A w \in { LutW, 360 } :
                LET on == process(CurveOn(params, w), hueLUT, src)
                IN  /\ on.out = off.out
                    /\ on.loc.graded_L = off.loc.graded_L
                    /\ on.loc.graded_C = off.loc.graded_C
                    /\ on.loc.graded_H = off.loc.graded_H
           /\ off.out = dst

\* the curve gate was open on the flat table for a saturated pixel
FlatLUTIsIdentityWitness ==
  Rendered /\ GateHolds(params) /\ hueLUT = DefaultLUT /\ path = "blend"
    /\ Len(reads) = 2 /\ loc.chroma_weight = One

\* C11: whenever C * c_gain + c_offset is negative the graded chroma is 0:
\* debug mode 2 writes 0, the Lab a and b of the reconstruction are 0, and
\* this is so whatever chroma multiplier an open curve supplies.
ChromaFloor ==
  (Rendered /\ path # "bypass"
     /\ MulFix(loc.lch[2], params.c_gain) + params.c_offset < 0)
    => /\ loc.graded_C = 0
       /\ path = "debug2" => rgb_of(dst) = << 0, 0, 0 >>
       /\ LET lab == oklch_to_oklab(<< loc.graded_L, loc.graded_C, loc.graded_H >>)
          IN  lab[2] = 0 /\ lab[3] = 0
       /\ LET r == process(CurveOn(params, LutW), WildLUT, src)
          IN  /\ r.loc.graded_C = 0
              /\ r.path = "debug2" => rgb_of(r.out) = << 0, 0, 0 >>

\* a coloured pixel was graded with c_offset = -10 and shown in debug mode 2
ChromaFloorWitness ==
  Rendered /\ path = "debug2" /\ params.c_offset = -10 * One
    /\ loc.lch[2] > 0 /\ dst = << 0, 0, 0, src[4] >>

\* the knobs with every hue shift at zero
NoHueShift(p) ==
  [p EXCEPT !.hue_shift_deg = 0, !.hue_target_shift = 0, !.hue_shift_red = 0,
            !.hue_shift_yellow = 0, !.hue_shift_green = 0, !.hue_shift_cyan = 0,
            !.hue_shift_blue = 0, !.hue_shift_magenta = 0]

\* the LUT image with its hue-shift channel at 0.5, the other channels kept
FlatHue(lut) == [i \in DOMAIN lut |-> << One \div 2, lut[i][2], lut[i][3] >>]

\* the locals of the hue grade of a pixel of chroma 0
AchromaticLocals ==
  /\ loc.chroma_weight = 0 /\ loc.total_hue_shift = 0
  /\ loc.lch[3] = 0 /\ loc.graded_H = loc.lch[3]

\* C12 (as claimed): for a pixel of chroma 0 the hue is not shifted and the
\* output is the output with every hue shift zero and the hue-shift channel
\* of the curve at 0.5, in every mode of the kernel.
AchromaticStabilityAllModes ==
  (Rendered /\ path # "bypass" /\ loc.lch[2] = 0)
    => /\ AchromaticLocals
       /\ \A lut \in { hueLUT, RampLUT } :
            process(CurveOn(params, LutW), lut, src).out
              = process(NoHueShift(CurveOn(params, LutW)), FlatHue(lut), src).out

\* C12 (amended): the same, except that debug mode 5 with the curve gate open
\* writes the LUT sample itself, hue-shift channel included.
AchromaticStability ==
  (Rendered /\ path # "bypass" /\ loc.lch[2] = 0)
    => /\ AchromaticLocals
       /\ (params.debug_mode = 5 /\ GateHolds(params))
            \/ process(NoHueShift(params), FlatHue(hueLUT), src).out = dst
       /\ params.debug_mode # 5 =>
            \A lut \in { hueLUT, RampLUT } :
              process(CurveOn(params, LutW), lut, src).out
                = process(NoHueShift(CurveOn(params, LutW)), FlatHue(lut), src).out

\* white was graded with a global hue shift and a red band shift
AchromaticStabilityWitness ==
  Rendered /\ path = "blend" /\ loc.lch[1] = One /\ loc.lch[2] = 0
    /\ params.hue_shift_deg = 90 * Deg /\ params.hue_shift_red = 90 * Deg

\* the corrections decoded from a LUT sample v: (v.x - 0.5) * 360 as a float,
\* v.y * 2, v.z * 2
Decoded(v) == << 360 * (v[1] - One \div 2), v[2] * 2, v[3] * 2 >>

\* C13 (as claimed): in debug mode 5 the RGB written is the decoded curve
\* triple at the original hue when the gate holds, and mid-grey when it fails.
DebugLUTDecoded ==
  (Rendered /\ path = "debug5")
    => rgb_of(dst) = (IF GateHolds(params)
                      THEN Decoded(sample_hue_lut(params, hueLUT, loc.lch[3]))
                      ELSE << One \div 2, One \div 2, One \div 2 >>)

\* C13 (amended): in debug mode 5 the RGB written is the LUT sample at the
\* original hue itself, the values the corrections are decoded from, when the
\* gate holds, and mid-grey when it fails; on a drawn LUT a pixel of hue 0
\* shows the first entry of the table.
DebugLUTRaw ==
  (Rendered /\ path = "debug5")
    => /\ rgb_of(dst) = (IF GateHolds(params)
                         THEN sample_hue_lut(params, hueLUT, loc.lch[3])
                         ELSE << One \div 2, One \div 2, One \div 2 >>)
       /\ LET on == CurveOn(params, LutW)
              r == process(on, RampLUT, src)
          IN  /\ rgb_of(r.out) = sample_hue_lut(on, RampLUT, loc.lch[3])
              /\ loc.lch[3] = 0 => rgb_of(r.out) = RampLUT[1]

\* debug mode 5 ran on a coloured pixel with the curve gate open
DebugLUTRawWitness ==
  Rendered /\ path = "debug5" /\ GateHolds(params) /\ loc.lch[2] > 0
    /\ dst = << One \div 2, One \div 2, One \div 2, src[4] >>

\* the invocation on src with the global hue shift at s
WithHueShift(s) == process([params EXCEPT !.hue_shift_deg = s], hueLUT, src)

WithMixClamp(m, c) ==
  process([params EXCEPT !.mix = m, !.clamp_output = c], hueLUT, src)

\* C15: in the debug modes 1 to 5 the pixel written does not change with mix
\* or clamp_output.
DebugIgnoresMixClamp ==
  (Rendered /\ path \in { "debug1", "debug2", "debug3", "debug4", "debug5" })
    => /\ WithMixClamp(0, TRUE).out = dst
       /\ WithMixClamp(One \div 2, ~params.clamp_output).out = dst

\* debug mode 1 wrote a lightness above 1 while mix was 0
DebugIgnoresMixClampWitness ==
  Rendered /\ path = "debug1" /\ params.mix = 0 /\ loc.graded_L > One
    /\ dst[1] = loc.graded_L

\* the RGB written by the invocation on src with mix at m
WithMix(m) == rgb_of(process([params EXCEPT !.mix = m], hueLUT, src).out)

\* x lies between a and b
Between(x, a, b) == Min(a, b) <= x /\ x <= Max(a, b)

\* C16: a mix below 0 gives the output of mix = 0, a mix above 1 the output
\* of mix = 1, and for the mix in force every channel written lies between
\* the input term of the blend and the graded RGB.
MixClampedAtUse ==
  (Rendered /\ path = "blend" /\ params.mix # One)
    => /\ WithMix(-F(50)) = WithMix(0)
       /\ WithMix(2 * One) = WithMix(One)
       /\ WithMix(0) = in_rgb_of(src)
       /\ \A c \in 1..3 : Between(dst[c], in_rgb_of(src)[c], WithMix(One)[c])

\* a pixel graded to twice its lightness was blended half and half
MixClampedAtUseWitness ==
  Rendered /\ path = "blend" /\ params.mix = F(50) /\ params.l_gain = 2 * One
    /\ dst[1] > src[1] /\ dst[1] < WithMix(One)[1]

\* the corrections a LUT sample v at the original hue calls for, on the
\* locals of the invocation in force: graded L, graded C and the curve's
\* share of the hue shift
CurveAtOriginalHue(v) ==
  [ graded_L |-> Max(MulFix(tone_L(params, loc.lch[1]), v[3] * 2), 0),
    graded_C |-> Max(MulFix(tone_C(params, loc.lch[2]), v[2] * 2), 0),
    hue |-> MulDiv(MulDiv(360 * Deg, v[1] - One \div 2, One), loc.chroma_weight, One) ]

\* r is the invocation with the curve on a drawn LUT, q the same with every
\* hue shift knob at zero, v the LUT sample at the original hue
SamplesOriginalHue(r, q, v) ==
  /\ r.reads # << >> /\ \A i \in DOMAIN r.reads : r.reads[i] = loc.lch[3]
  /\ q.reads = r.reads
  /\ r.loc.graded_L = CurveAtOriginalHue(v).graded_L
  /\ r.loc.graded_C = CurveAtOriginalHue(v).graded_C
  /\ q.loc.graded_L = r.loc.graded_L /\ q.loc.graded_C = r.loc.graded_C
  /\ q.loc.total_hue_shift = CurveAtOriginalHue(v).hue
  /\ r.loc.total_hue_shift - q.loc.total_hue_shift
       = total_hue_shift_of(CurveOff(params), hueLUT, loc.lch)
  /\ r.path = "debug5" => (rgb_of(r.out) = v /\ q.out = r.out)

\* C17: with the hue shifted by the knobs, the L/C multipliers, the curve hue
\* shift and the debug mode 5 pixel are those of the one LUT sample taken at
\* the original hue, and they are the same with every hue shift knob at zero.
CurveSampledAtOriginalHue ==
  (Rendered /\ path # "bypass" /\ NoHueShift(params) # params)
    => SamplesOriginalHue(process(CurveOn(params, LutW), RampLUT, src),
                          process(NoHueShift(CurveOn(params, LutW)), RampLUT, src),
                          sample_hue_lut(CurveOn(params, LutW), RampLUT, loc.lch[3]))

\* the curve gate was open while the global hue shift turned a saturated
\* pixel by 90 degrees
CurveSampledAtOriginalHueWitness ==
  Rendered /\ GateHolds(params) /\ params.hue_shift_deg = 90 * Deg
    /\ loc.chroma_weight = One /\ loc.total_hue_shift = 90 * Deg
    /\ reads = << loc.lch[3], loc.lch[3] >>

\* the hues within 60 degrees of the 0/360 seam: [0, 60) and (300, 360)
InRed(h) == h < 60 * Deg \/ h > 300 * Deg

\* hues on both sides of the seam, at the edges of the band and away from it
SeamHues ==
  { 0, 1, Deg, 30 * Deg, 59 * Deg, 60 * Deg, 61 * Deg, 120 * Deg, 180 * Deg,
    240 * Deg, 299 * Deg, 300 * Deg, 301 * Deg, 330 * Deg, 359 * Deg, 360 * Deg - 1 }

EdgeHues == { 60 * Deg - 10, 300 * Deg + 10 }

ConvChannels == { -F(50), 0, F(18), One, 4 * One, 16 * One }

ConvTriples == { << r, g, b >> : r \in ConvChannels, g \in ConvChannels, b \in ConvChannels }

\* a triple is given; nothing is converted yet
ConvInit ==
  /\ params = Defaults
  /\ hueLUT = DefaultLUT
  /\ src \in { << t[1], t[2], t[3], One >> : t \in ConvTriples }
  /\ dst = NoPixel
  /\ path = "none"
  /\ reads = << >>
  /\ loc = NoLocals

\* linear RGB -> XYZ -> OKLab -> OKLCH
Forward ==
  /\ path = "none"
  /\ loc' = [ loc EXCEPT
               !.lch = oklab_to_oklch(xyz_to_oklab(linear_srgb_to_xyz(rgb_of(src)))) ]
  /\ path' = "forward"
  /\ UNCHANGED << params, hueLUT, src, dst, reads >>

\* OKLCH -> OKLab -> XYZ -> linear RGB
Inverse ==
  /\ path = "forward"
  /\ dst' = xyz_to_linear_srgb(oklab_to_xyz(oklch_to_oklab(loc.lch))) \o << src[4] >>
  /\ path' = "inverse"
  /\ UNCHANGED << params, hueLUT, src, reads, loc >>

ConvNext ==
  \/ Forward
  \/ Inverse

ConvSpec == ConvInit /\ [][ConvNext]_vars

\* the largest channel magnitude of a triple, and 1.0 for a triple below it
Magnitude(px) == Max(One, Max(Abs(px[1]), Max(Abs(px[2]), Abs(px[3]))))

NPix == 2

Pos == 1..NPix

\* the pixels a frame is made of: a saturated one, a grey one, a highlight
\* with a negative channel
FramePixels ==
  { << F(30), F(14), F(18), One >>,
    << F(18), F(18), F(18), One >>,
    << 4 * One, F(50), -F(20), F(50) >> }

\* the knobs of a render: the defaults, a hue shift, the curves, the bypass
FrameParams ==
  { Defaults,
    [ Defaults EXCEPT !.hue_shift_deg = 90 * Deg ],
    [ Defaults EXCEPT !.hue_curves_enable = TRUE, !.hue_lut_connected = TRUE,
                      !.hue_lut_width = LutW ],
    [ Defaults EXCEPT !.bypass = TRUE ] }

\* what an invocation holds in its automatic variables before it starts
NoPrivate == [ src_pixel |-> NoPixel, out |-> NoPixel, lut_reads |-> << >> ]

\* one access of an invocation to an image of the kernel
Access(i, image, op, at) == [ inv |-> i, image |-> image, op |-> op, at |-> at ]

\* a kernel member, one for all the invocations
slot_Shared(i) == 1

\* where the invocation at position i keeps src_pixel and what it derives
\* from it: in automatic variables of its own
slot(i) == i

\* a frame, the knobs and the LUT are given; no invocation has started
FrameInit ==
  /\ params \in FrameParams
  /\ hueLUT \in { DefaultLUT, RampLUT }
  /\ src \in [ Pos -> FramePixels ]
  /\ dst = [ i \in Pos |-> NoPixel ]
  /\ path = [ i \in Pos |-> "idle" ]
  /\ reads = { }
  /\ loc = [ i \in Pos |-> NoPrivate ]

\* float4 src_pixel = src();
Read(i) ==
  /\ path[i] = "idle"
  /\ loc' = [ loc EXCEPT ![slot(i)].src_pixel = src[i] ]
  /\ reads' = reads \cup { Access(i, "src", "read", i) }
  /\ path' = [ path EXCEPT ![i] = "read" ]
  /\ UNCHANGED << params, hueLUT, src, dst >>

\* the body of process(), from in_rgb to the value it is about to write
Compute(i) ==
  /\ path[i] = "read"
  /\ loc' = [ loc EXCEPT
               ![slot(i)].out = process(params, hueLUT, loc[slot(i)].src_pixel).out,
               ![slot(i)].lut_reads =
                  process(params, hueLUT, loc[slot(i)].src_pixel).reads ]
  /\ reads' = reads \cup
       { Access(i, "hueLUT", "read", h) :
           h \in { process(params, hueLUT, loc[slot(i)].src_pixel).reads[n] :
                     n \in 1..Len(process(params, hueLUT, loc[slot(i)].src_pixel).reads) } }
  /\ path' = [ path EXCEPT ![i] = "computed" ]
  /\ UNCHANGED << params, hueLUT, src, dst >>

\* dst() = ...;
Write(i) ==
  /\ path[i] = "computed"
  /\ dst' = [ dst EXCEPT ![i] = loc[slot(i)].out ]
  /\ reads' = reads \cup { Access(i, "dst", "write", i) }
  /\ path' = [ path EXCEPT ![i] = "done" ]
  /\ UNCHANGED << params, hueLUT, src, loc >>

FrameNext ==
  \/ \E i \in Pos : Read(i)
  \/ \E i \in Pos : Compute(i)
  \/ \E i \in Pos : Write(i)

FrameSpec == FrameInit /\ [][FrameNext]_vars

\* every access logged is one the invocation at position i may make: a read
\* of its own source pixel, a read of the LUT, a write of its own
\* destination pixel
OwnAccess(a) ==
  \/ a.image = "src" /\ a.op = "read" /\ a.at = a.inv
  \/ a.image = "hueLUT" /\ a.op = "read"
  \/ a.image = "dst" /\ a.op = "write" /\ a.at = a.inv

\* C20: however the invocations of a frame interleave, with the knobs and the
\* LUT fixed, the pixel an invocation has written is the pixel a run of
\* process() on its source pixel alone gives, a pixel whose invocation has not
\* written yet is untouched, and every access is to the invocation's own source
\* pixel (read), the LUT (read) or its own destination pixel (write).
InterleavingIndependent ==
  /\ \A i \in Pos :
       IF path[i] = "done" THEN dst[i] = process(params, hueLUT, src[i]).out
       ELSE dst[i] = NoPixel
  /\ \A a \in reads : OwnAccess(a)

\* two invocations on different pixels are under way at once, the curves on:
\* one has written its pixel while the other holds a value not yet written
InterleavingIndependentWitness ==
  /\ path[1] = "computed" /\ path[2] = "done"
  /\ src[1] # src[2] /\ loc[1].out # loc[2].out /\ dst[2] # src[2]
  /\ GateHolds(params) /\ hueLUT = RampLUT
  /\ \E a \in reads : a.image = "hueLUT" /\ a.inv = 1

\* C21: past the bypass test the graded lightness and the graded chroma are
\* never negative, whatever the knobs and the LUT: the global grade is floored
\* at 0, the curve-multiplied result is floored at 0 again (also for a LUT with
\* entries outside [0, 1]), and debug modes 1 and 2 write these values.
GradedNonNegative ==
  (Rendered /\ path # "bypass")
    => /\ loc.graded_L >= 0 /\ loc.graded_C >= 0
       /\ tone_L(params, loc.lch[1]) >= 0 /\ tone_C(params, loc.lch[2]) >= 0
       /\ \A w \in { LutW, 360 } :
            /\ curve_LC(CurveOn(params, w), WildLUT, loc.lch)[1] >= 0
            /\ curve_LC(CurveOn(params, w), WildLUT, loc.lch)[2] >= 0
       /\ path = "debug1" => rgb_of(dst) = << loc.graded_L, loc.graded_L, loc.graded_L >>
       /\ path = "debug2" => rgb_of(dst) = << loc.graded_C, loc.graded_C, loc.graded_C >>

\* the curve gate was open on a LUT with a negative blue entry: the global
\* grade left a positive lightness and the curve multiplier floored it at 0
GradedNonNegativeWitness ==
  Rendered /\ GateHolds(params) /\ hueLUT = WildLUT
    /\ tone_L(params, loc.lch[1]) > 0 /\ loc.graded_L = 0 /\ loc.graded_C > 0
    /\ sample_hue_lut(params, hueLUT, loc.lch[3])[3] < 0

\* the knobs with contrast k and pivot pv
WithTone(k, pv) == [ params EXCEPT !.l_contrast = k, !.l_pivot = pv ]

\* contrast values, zero and a negative one included
ContrastValues == { -One, 0, F(50), One, 2 * One }

\* pivot values, a negative one included
PivotValues == { -F(10), 0, F(18), F(50) }

\* L * l_gain + l_offset of the invocation
GainedL == MulFix(loc.lch[1], params.l_gain) + params.l_offset

\* C22: with the curve gate closed, graded L is
\* max(0, (L*l_gain + l_offset - p)*k + p) with p = max(l_pivot, 0) and
\* k = max(l_contrast, 0), and graded C is max(0, C*c_gain + c_offset); with a
\* contrast of 0 or below graded L is p whatever the pixel, and a pixel whose
\* L*l_gain + l_offset is on the pivot keeps it under every contrast.
ToneGrade ==
  (Rendered /\ path # "bypass" /\ ~GateHolds(params))
    => /\ loc.graded_L
            = Max(0, MulFix(GainedL - Max(params.l_pivot, 0), Max(params.l_contrast, 0))
                       + Max(params.l_pivot, 0))
       /\ loc.graded_C = Max(0, MulFix(loc.lch[2], params.c_gain) + params.c_offset)
       /\ params.l_contrast <= 0 => loc.graded_L = Max(params.l_pivot, 0)
       /\ \A k \in ContrastValues : \A pv \in PivotValues :
            k <= 0 => tone_L(WithTone(k, pv), loc.lch[1]) = Max(pv, 0)
       /\ GainedL >= 0
            => \A k \in ContrastValues : tone_L(WithTone(k, GainedL), loc.lch[1]) = GainedL

\* contrast 0 put a pixel of another lightness on the pivot 0.5
ToneGradeWitness ==
  Rendered /\ path = "blend" /\ ~GateHolds(params) /\ params.l_contrast = 0
    /\ params.l_pivot = F(50) /\ loc.graded_L = F(50) /\ loc.lch[1] > F(90)

\* ---------------------------------------------------------------------------
\* process() as a function of its inputs: renders under whole knob settings
\* ---------------------------------------------------------------------------

\* the knobs of the lightness/chroma stage
ToneKnobs == { "l_gain", "l_offset", "l_contrast", "l_pivot", "c_gain", "c_offset" }

\* the knobs of the hue stage
HueKnobs ==
  { "hue_shift_deg", "hue_chroma_threshold", "hue_shift_red", "hue_shift_yellow",
    "hue_shift_green", "hue_shift_cyan", "hue_shift_blue", "hue_shift_magenta",
    "hue_target_deg", "hue_target_shift", "hue_target_falloff_deg" }

\* the knobs p with those of the setting s replaced
With(p, s) == [ k \in Knobs |-> IF k \in DOMAIN s THEN s[k] ELSE p[k] ]

\* settings of the lightness/chroma stage: the defaults, a lift with more
\* chroma, a crush with less, chroma pulled to zero
ToneSettings ==
  { [ k \in ToneKnobs |-> Defaults[k] ],
    [ l_gain |-> 2 * One, l_offset |-> -F(10), l_contrast |-> F(50), l_pivot |-> F(50),
      c_gain |-> 2 * One, c_offset |-> -F(5) ],
    [ l_gain |-> F(50), l_offset |-> F(20), l_contrast |-> 2 * One, l_pivot |-> 0,
      c_gain |-> F(50), c_offset |-> F(10) ],
    [ l_gain |-> One, l_offset |-> 0, l_contrast |-> 0, l_pivot |-> F(18),
      c_gain |-> One, c_offset |-> -10 * One ] }

\* settings of the hue stage: the defaults, a global shift without threshold,
\* all the bands, the target correction
HueSettings ==
  { [ k \in HueKnobs |-> Defaults[k] ],
    [ [ k \in HueKnobs |-> Defaults[k] ] EXCEPT
        !.hue_shift_deg = 90 * Deg, !.hue_chroma_threshold = 0 ],
    [ [ k \in HueKnobs |-> Defaults[k] ] EXCEPT
        !.hue_shift_red = 90 * Deg, !.hue_shift_yellow = 30 * Deg,
        !.hue_shift_green = -40 * Deg, !.hue_shift_cyan = 30 * Deg,
        !.hue_shift_blue = 30 * Deg, !.hue_shift_magenta = -45 * Deg,
        !.hue_chroma_threshold = F(20) ],
    [ [ k \in HueKnobs |-> Defaults[k] ] EXCEPT
        !.hue_target_deg = 385 * Deg, !.hue_target_shift = 20 * Deg,
        !.hue_target_falloff_deg = 0, !.hue_shift_deg = -30 * Deg ] }

\* settings of the curve gate: closed as define() leaves it, open on the LUT
CurveSettings ==
  { [ hue_curves_enable |-> FALSE, hue_lut_connected |-> FALSE, hue_lut_width |-> 360 ],
    [ hue_curves_enable |-> TRUE, hue_lut_connected |-> TRUE, hue_lut_width |-> LutW ] }

\* settings of the target correction: target hues inside and outside
\* [0, 360), falloffs at, below and above the floor of 0.1 degree
TargetSettings ==
  { [ hue_target_deg |-> t, hue_target_shift |-> 20 * Deg, hue_target_falloff_deg |-> f ] :
      t \in { 0, 30 * Deg, 385 * Deg, -335 * Deg, 325 * Deg },
      f \in { 25 * Deg, 0, -10 * Deg, Deg \div 20, 180 * Deg } }

\* the knob settings of a render
RenderParams ==
  { With(With(With(Defaults, t), h), c) :
      t \in ToneSettings, h \in HueSettings, c \in CurveSettings }
    \cup { With(Defaults, t) : t \in TargetSettings }

\* the host has set the knobs and wired a LUT; no pixel is processed yet
RenderInit ==
  /\ params \in RenderParams
  /\ hueLUT \in LutSet
  /\ src = NoPixel
  /\ dst = NoPixel
  /\ path = "none"
  /\ reads = << >>
  /\ loc = NoLocals

RenderNext ==
  \/ \E px \in Pixels : Process(px)
  \/ Release

RenderSpec == RenderInit /\ [][RenderNext]_vars

\* C23: graded L and graded C are the same under every setting of the hue
\* knobs, and chroma_weight, the total hue shift and the graded hue are the
\* same under every setting of the lightness and chroma knobs.
StagesIndependent ==
  (Rendered /\ path # "bypass")
    => /\ \A h \in HueSettings :
            /\ process(With(params, h), hueLUT, src).loc.graded_L = loc.graded_L
            /\ process(With(params, h), hueLUT, src).loc.graded_C = loc.graded_C
       /\ \A t \in ToneSettings :
            /\ process(With(params, t), hueLUT, src).loc.chroma_weight = loc.chroma_weight
            /\ process(With(params, t), hueLUT, src).loc.total_hue_shift
                 = loc.total_hue_shift
            /\ process(With(params, t), hueLUT, src).loc.graded_H = loc.graded_H

\* a pixel of low chroma was graded in lightness, in chroma and in hue at
\* once, its hue shift faded by a chroma_weight between 0 and 1
StagesIndependentWitness ==
  Rendered /\ path = "blend" /\ params.c_gain = 2 * One /\ params.hue_shift_red # 0
    /\ loc.chroma_weight > 0 /\ loc.chroma_weight < One
    /\ loc.graded_L # loc.lch[1] /\ loc.graded_C # loc.lch[2] /\ loc.graded_H # loc.lch[3]

\* ---------------------------------------------------------------------------
\* wrap_hue_deg in single precision, as the two kernels compute it
\* ---------------------------------------------------------------------------

\* An angle is here an integer count of 2^-18 degree.  A count is a float
\* when it has at most 24 significant bits; F32 rounds a count to the nearest
\* float, ties to even, as every float operation of the kernel does.
HUnit == 262144

\* 360.0f
Turn == 360 * HUnit

RECURSIVE BitLen(_)
BitLen(n) == IF n = 0 THEN 0 ELSE 1 + BitLen(n \div 2)

RECURSIVE Pow2(_)
Pow2(n) == IF n <= 0 THEN 1 ELSE 2 * Pow2(n - 1)

\* the distance between the floats around the count n
Ulp(n) == IF BitLen(Abs(n)) <= 24 THEN 1 ELSE Pow2(BitLen(Abs(n)) - 24)

\* round to nearest float, ties to even
F32(n) ==
  LET u == Ulp(n)
      a == Abs(n)
      lo == (a \div u) * u
      up == IF 2 * (a - lo) < u THEN lo
            ELSE IF 2 * (a - lo) > u THEN lo + u
            ELSE IF (lo \div u) % 2 = 0 THEN lo ELSE lo + u
  IN  IF n < 0 THEN -up ELSE up

\* the exponent of the floats next to the integer k on the side of the
\* quotients that round to it from below: floor(log2 |k|), one less when k is
\* a positive power of two
ExpBelow(k) ==
  IF k > 0 /\ Pow2(BitLen(k) - 1) = k THEN BitLen(k) - 2 ELSE BitLen(Abs(k)) - 1

\* floor(h / 360.0f): the quotient is rounded to a float before the floor, so
\* a quotient within half a float step below an integer k gives k
floor_quot(h) ==
  LET k0 == h \div Turn
      r == h - k0 * Turn
  IN  IF k0 + 1 # 0 /\ 16 * (Turn - r) <= 45 * Pow2(ExpBelow(k0 + 1) + 1)
      THEN k0 + 1 ELSE k0

\* wrap_hue_deg of the second kernel: h - 360.0f * floor(h / 360.0f), then
\* + 360.0f if the difference is negative
wrap_hue_deg_floor(h) ==
  IF F32(h - F32(Turn * floor_quot(h))) < 0
  THEN F32(F32(h - F32(Turn * floor_quot(h))) + Turn)
  ELSE F32(h - F32(Turn * floor_quot(h)))

\* fmod(h, 360.0f): the exact remainder, with the sign of h
fmod360(h) == IF h < 0 THEN -((-h) % Turn) ELSE h % Turn

\* wrap_hue_deg of the first kernel: fmod(h, 360.0f), then + 360.0f if the
\* remainder is negative
wrap_hue_deg_fmod(h) ==
  IF fmod360(h) < 0 THEN F32(fmod360(h) + Turn) ELSE fmod360(h)

\* original hues of a pixel: floats
WrapHues == { 0, (117 * HUnit) \div 4, 90 * HUnit, 200 * HUnit, (719 * HUnit) \div 2, Turn - 8 }

\* total hue shifts: floats, among them shifts that take a hue a hair below
\* 0, whole turns and more than a turn
WrapShifts ==
  { 0, -1, -((117 * HUnit) \div 4) - 1, -90 * HUnit - 4, -90 * HUnit - 8, HUnit \div 2,
    -(HUnit \div 2), Turn, -Turn, 2 * Turn, -2 * Turn - 64, 400 * HUnit, -500 * HUnit }

\* a pixel's original hue and its total hue shift are given
WrapInit ==
  /\ params = Defaults
  /\ hueLUT = DefaultLUT
  /\ src \in { << F32(o), F32(t) >> : o \in WrapHues, t \in WrapShifts }
  /\ dst = NoPixel
  /\ path = "none"
  /\ reads = << >>
  /\ loc = NoLocals

\* the float sum orig_H + total_hue_shift handed to wrap_hue_deg
WrapArg == F32(src[1] + src[2])

\* graded_H = wrap_hue_deg(orig_H + total_hue_shift), second kernel
WrapSecond ==
  /\ dst = NoPixel
  /\ dst' = << wrap_hue_deg_floor(WrapArg) >>
  /\ UNCHANGED << params, hueLUT, src, path, reads, loc >>

\* H = wrap_hue_deg(lch.z + hue_shift_deg), first kernel
WrapFirst ==
  /\ reads = << >>
  /\ reads' = << wrap_hue_deg_fmod(WrapArg) >>
  /\ UNCHANGED << params, hueLUT, src, dst, path, loc >>

WrapNext ==
  \/ WrapSecond
  \/ WrapFirst

WrapSpec == WrapInit /\ [][WrapNext]_vars

\* C24 (as claimed): the wrapped hue r of the second kernel satisfies
\* 0 <= r < 360 and differs from h by a whole number of turns (r is the float
\* nearest to the exact remainder), for every h, and the wrap of the first
\* kernel returns the same value.
WrapIsModulo ==
  /\ dst # NoPixel
       => /\ 0 <= dst[1] /\ dst[1] < Turn
          /\ dst[1] = F32(WrapArg % Turn)
  /\ (dst # NoPixel /\ reads # << >>) => dst[1] = reads[1]

\* ---------------------------------------------------------------------------
\* sample_hue_lut in single precision: the table position lut_x
\* ---------------------------------------------------------------------------

\* A float that is not on the 2^-18 grid is a pair << m, e >> standing for
\* m * 2^e, with 2^23 <= m < 2^24, or << 0, 0 >> for 0.0f.
FZero == << 0, 0 >>

\* the float of an angle count n >= 0 that is a float
ToFloat(n) ==
  IF n = 0 THEN FZero
  ELSE IF BitLen(n) > 24
  THEN << n \div Pow2(BitLen(n) - 24), BitLen(n) - 24 - 18 >>
  ELSE << n * Pow2(24 - BitLen(n)), BitLen(n) - 24 - 18 >>

\* the significand of 360.0f = 11796480 * 2^-15
Sig360 == 11796480

\* n further bits of the quotient rem / d by long division: << bits, rem >>
RECURSIVE LongDiv(_, _, _, _)
LongDiv(rem, d, n, q) ==
  IF n = 0 THEN << q, rem >>
  ELSE IF 2 * rem >= d THEN LongDiv(2 * rem - d, d, n - 1, 2 * q + 1)
  ELSE LongDiv(2 * rem, d, n - 1, 2 * q)

\* a 24-bit quotient q with remainder rem of a division by d, rounded to
\* nearest (ties to even) at exponent e
RoundQuot(q, rem, d, e) ==
  LET up == 2 * rem > d \/ (2 * rem = d /\ q % 2 = 1)
  IN  IF ~up THEN << q, e >>
      ELSE IF q + 1 = Pow2(24) THEN << Pow2(23), e + 1 >>
      ELSE << q + 1, e >>

\* x / 360.0f
fdiv360(x) ==
  IF x[1] = 0 THEN FZero
  ELSE IF x[1] >= Sig360
  THEN RoundQuot(LongDiv(x[1] - Sig360, Sig360, 23, 1)[1],
                 LongDiv(x[1] - Sig360, Sig360, 23, 1)[2], Sig360, x[2] + 15 - 23)
  ELSE RoundQuot(LongDiv(x[1], Sig360, 24, 0)[1],
                 LongDiv(x[1], Sig360, 24, 0)[2], Sig360, x[2] + 15 - 24)

\* the product hi * 2^12 + lo (lo < 2^12, hi of 12 to 24 bits) of a
\* significand and a whole number, at exponent e, rounded to a float: the
\* BitLen(hi) - 12 low bits are rounded away
RoundProd(hi, lo, e) ==
  RoundQuot(hi * Pow2(24 - BitLen(hi)) + lo \div Pow2(BitLen(hi) - 12),
            lo % Pow2(BitLen(hi) - 12), Pow2(BitLen(hi) - 12), e + BitLen(hi) - 12)

\* x * k for a float x and a whole number k, 0 <= k < 2048, which is a float
fmul_int(x, k) ==
  IF x[1] = 0 \/ k = 0 THEN FZero
  ELSE RoundProd((x[1] \div 4096) * k + ((x[1] % 4096) * k) \div 4096,
                 ((x[1] % 4096) * k) % 4096, x[2])

\* floor(x) for a float x >= 0 below 2^24
ffloor(x) ==
  IF x[2] >= 0 THEN x[1] * Pow2(x[2])
  ELSE IF -x[2] >= 24 THEN 0
  ELSE x[1] \div Pow2(-x[2])

\* x is a whole number
fwhole(x) == x[1] = 0 \/ x[2] >= 0 \/ (-x[2] < 24 /\ x[1] % Pow2(-x[2]) = 0)

\* lut_x spread over the whole width: norm * w
lut_x_f32_FullWidth(width, h) ==
  fmul_int(fdiv360(ToFloat(wrap_hue_deg_floor(h))), Max(width, 2))

\* lut_x of sample_hue_lut for the hue count h and the knob hue_lut_width:
\* w = max(float(hue_lut_width), 2.0f), norm = wrap_hue_deg(h) / 360.0f,
\* lut_x = norm * (w - 1.0f)
lut_x_f32(width, h) ==
  fmul_int(fdiv360(ToFloat(wrap_hue_deg_floor(h))), Max(width, 2) - 1)

\* the original hues of pixels, floats in [0, 360]: oklab_to_oklch returns
\* atan2 in degrees, plus 360.0f when negative
SampleHues ==
  { 0, 1, 8, HUnit, (117 * HUnit) \div 4, 45 * HUnit, 90 * HUnit, 120 * HUnit,
    180 * HUnit, 240 * HUnit, 270 * HUnit, 359 * HUnit, (719 * HUnit) \div 2,
    Turn - 4096, Turn - 64, Turn - 32, Turn - 24, Turn - 16, Turn - 8, Turn }

\* values of the knob hue_lut_width
SampleWidths == { 0, 1, 2, 3, LutW, 360, 1024 }

\* the curve knobs are set and a pixel of original hue src[1] is being graded
SampleInit ==
  /\ params \in { [ Defaults EXCEPT !.hue_curves_enable = TRUE, !.hue_lut_connected = c,
                                     !.hue_lut_width = w ] :
                     c \in BOOLEAN, w \in SampleWidths }
  /\ hueLUT = RampLUT
  /\ src \in { << h >> : h \in SampleHues }
  /\ dst = NoPixel
  /\ path = "none"
  /\ reads = << >>
  /\ loc = NoLocals

\* if (hue_curves_enable && hue_lut_connected && hue_lut_width > 1)
\*   sample_hue_lut(orig_H): reads holds lut_x, dst the indices of the two
\* entries bilinear interpolates between
Sample ==
  /\ CurveGate(params)
  /\ reads = << >>
  /\ reads' = << lut_x_f32(params.hue_lut_width, src[1]) >>
  /\ dst' = << ffloor(lut_x_f32(params.hue_lut_width, src[1])),
               ffloor(lut_x_f32(params.hue_lut_width, src[1])) + 1 >>
  /\ path' = "sampled"
  /\ UNCHANGED << params, hueLUT, src, loc >>

SampleNext == Sample

SampleSpec == SampleInit /\ [][SampleNext]_vars

\* C25: whenever the LUT is sampled at the original hue of a pixel, the
\* effective width W = max(hue_lut_width, 2) is the knob and is 2 or more,
\* the position lut_x is in [0, W-1), the two entries interpolated are
\* floor(lut_x) and the next one, both in [0, W-1], the second is never entry
\* 0, and hue 0 gives position 0.
LutPositionInRange ==
  reads # << >>
    => /\ params.hue_lut_width >= 2 /\ Max(params.hue_lut_width, 2) = params.hue_lut_width
       /\ reads[1][1] >= 0
       /\ ffloor(reads[1]) < params.hue_lut_width - 1
       /\ dst[1] \in 0..(params.hue_lut_width - 1)
       /\ dst[2] \in 1..(params.hue_lut_width - 1) /\ dst[2] = dst[1] + 1
       /\ src[1] = 0 => (reads[1] = FZero /\ dst[1] = 0)

\* the largest float hue below 360 was sampled on a table 360 wide: the
\* position is in the last interval, between entries 358 and 359
LutPositionInRangeWitness ==
  reads # << >> /\ src[1] = Turn - 8 /\ params.hue_lut_width = 360
    /\ dst = << 358, 359 >> /\ ~fwhole(reads[1])

\* the knobs with the target hue t and the falloff f
WithTarget(t, f) == [ params EXCEPT !.hue_target_deg = t, !.hue_target_falloff_deg = f ]

\* only the target correction shifts the hue
OnlyTarget(p) ==
  /\ p.hue_shift_deg = 0 /\ p.hue_target_shift # 0
  /\ \A b \in BandCentres : p[b[2]] = 0

\* the cosine window of half-width max(f, 0.1) around wrap(t), at hue h
TargetWindow(h, t, f) == hue_band_weight(h, wrap_hue_deg(t), Max(f, Deg \div 10))

\* falloff values: above the floor, on it, below it, zero and negative
FalloffValues == { 25 * Deg, Deg \div 10, Deg \div 20, 0, -10 * Deg }

\* C26: the target correction is hue_target_shift times the cosine window of
\* half-width max(hue_target_falloff_deg, 0.1) around wrap(hue_target_deg)
\* times chroma_weight; for every falloff, 0 and negatives included, the
\* window is in [0, 1], is 1 at the wrapped target, is that of the floor 0.1
\* when the falloff is below it, and a target 360k further gives the same
\* pixel.
TargetWeight ==
  (Rendered /\ path # "bypass" /\ OnlyTarget(params) /\ ~GateHolds(params))
    => /\ loc.total_hue_shift
            = MulDiv(params.hue_target_shift,
                     MulFix(TargetWindow(loc.lch[3], params.hue_target_deg,
                                         params.hue_target_falloff_deg),
                            loc.chroma_weight), One)
       /\ \A f \in FalloffValues :
            /\ TargetWindow(loc.lch[3], params.hue_target_deg, f) \in 0..One
            /\ \A k \in { -1, 0, 2 } :
                 TargetWindow(loc.lch[3], loc.lch[3] + k * 360 * Deg, f) = One
            /\ f <= Deg \div 10
                 => /\ target_term(WithTarget(loc.lch[3] + Deg \div 20, f), loc.lch[3], One)
                         = params.hue_target_shift \div 2
                    /\ target_term(WithTarget(loc.lch[3] + Deg \div 2, f), loc.lch[3], One) = 0
       /\ \A k \in { -2, -1, 1 } :
            process(WithTarget(params.hue_target_deg + k * 360 * Deg,
                               params.hue_target_falloff_deg), hueLUT, src).out = dst

\* a saturated pixel was graded with the target at 385 degrees and a falloff
\* of 0: the half-width is the floor, the pixel is outside the window
TargetWeightWitness ==
  Rendered /\ path = "blend" /\ params.hue_target_deg = 385 * Deg
    /\ params.hue_target_falloff_deg = 0 /\ loc.chroma_weight = One
    /\ loc.total_hue_shift = 0 /\ loc.lch[3] > 25 * Deg /\ loc.lch[3] < 35 * Deg

\* ---------------------------------------------------------------------
\* The chroma weight over thresholds and chromas (C27)
\* ---------------------------------------------------------------------

\* the knobs p with the chroma threshold th
WithThreshold(p, th) == With(p, [ hue_chroma_threshold |-> th ])

\* thresholds below, at and above the floor of 0.0001
ThresholdValues == { -F(10), 0, One \div 10000, F(5), F(20), One }

\* length of the run of adjacent chromas
ChromaRun == 200

\* original chromas: 0 to 0.3 by steps of 0.01, and a run of adjacent values
\* from 0.19, inside the ramp of the threshold 1.0 where t moves by single
\* steps of the representation
ChromaValues == { F(n) : n \in 0..30 } \cup (F(19)..(F(19) + ChromaRun))

\* the floored threshold of the knobs p
SafeThreshold(p) == Max(p.hue_chroma_threshold, One \div 10000)

\* the host has set a threshold; no pixel is weighted yet
WeightInit ==
  /\ params \in { WithThreshold(Defaults, th) : th \in ThresholdValues }
  /\ hueLUT = DefaultLUT
  /\ src = NoPixel
  /\ dst = NoPixel
  /\ path = "none"
  /\ reads = << >>
  /\ loc = NoLocals

\* the weighting of a pixel of original chroma C, at the default grade
Weigh ==
  /\ \E C \in ChromaValues :
       loc' = locals(<< F(50), C, 0 >>, << F(50), C >>, chroma_weight_of(params, C), 0)
  /\ UNCHANGED << params, hueLUT, src, dst, path, reads >>

WeightNext == Weigh

WeightSpec == WeightInit /\ [][WeightNext]_vars

LabOne == 1073741824

\* 57.2957795131f, in counts of 2^-18 degree per radian
RadToDeg == 15019745

\* the largest count that is <= 0.000004f
PolarEpsilon == 4294

\* the (a, b) pairs on which atan2 and sqrt are modelled: on an axis, on a
\* diagonal, or within 2^-12 radian of the positive a axis
Computable(a, b) ==
  \/ a = 0
  \/ b = 0
  \/ Abs(a) = Abs(b) /\ Abs(a) <= 30000
  \/ a > 0 /\ Abs(b) * 4096 <= a /\ Abs(b) <= 64

\* atan2(b, a) * 57.2957795131f: exact on the axes and diagonals, b / a
\* radians near the positive a axis
atan2_deg(b, a) ==
  IF b = 0 THEN (IF a < 0 THEN 180 * HUnit ELSE 0)
  ELSE IF a = 0 THEN (IF b > 0 THEN 90 * HUnit ELSE -90 * HUnit)
  ELSE IF Abs(a) = Abs(b)
       THEN (IF b > 0 THEN 1 ELSE -1) * (IF a > 0 THEN 45 * HUnit ELSE 135 * HUnit)
  ELSE IF b > 0 THEN (b * RadToDeg + a \div 2) \div a
  ELSE -(((-b) * RadToDeg + a \div 2) \div a)

\* sqrt(a*a + b*b): the other component adds nothing near an axis
polar_chroma(a, b) ==
  IF b = 0 THEN Abs(a)
  ELSE IF a = 0 THEN Abs(b)
  ELSE IF Abs(a) = Abs(b) THEN SqrtSearch(2 * a * a, 0, 46340)
  ELSE Abs(a)

\* oklab_to_oklch in single precision: the guard for a negative angle, then
\* the canonical hue for near-zero chroma. The angle of atan2 is negative
\* exactly when b is, also where it is smaller than one count.
oklab_to_oklch_f32(lab) ==
  << lab[1],
     polar_chroma(lab[2], lab[3]),
     IF polar_chroma(lab[2], lab[3]) <= PolarEpsilon THEN 0
     ELSE IF lab[3] < 0 THEN F32(atan2_deg(lab[3], lab[2]) + Turn)
     ELSE atan2_deg(lab[3], lab[2]) >>

\* OKLab inputs: neutral and near-neutral colours on both sides of the
\* chroma 0.000004, and saturated ones a hair off the positive a axis
PolarInputs ==
  { lab \in { 0, LabOne \div 2 }
            \X { 0, 7, -7, 3000, -3000, 3100, 4294, 4295, 30000, -30000,
                 LabOne \div 16, LabOne \div 2 }
            \X { 0, 1, -1, 5, -5, 8, -8, 32, -32, 64, -64, 3000, -3000,
                 3100, -3100, 4295, -4295, 30000, -30000 } :
      Computable(lab[2], lab[3]) }

\* an OKLab triple is about to be converted
PolarInit ==
  /\ params = Defaults
  /\ hueLUT = DefaultLUT
  /\ src \in PolarInputs
  /\ dst = NoPixel
  /\ path = "none"
  /\ reads = << >>
  /\ loc = NoLocals

\* the conversion of the triple
Polar ==
  /\ dst = NoPixel
  /\ dst' = oklab_to_oklch_f32(src)
  /\ UNCHANGED << params, hueLUT, src, path, reads, loc >>

PolarNext == Polar

PolarSpec == PolarInit /\ [][PolarNext]_vars

\* C28: the forward polar conversion returns H = 0 whenever the computed
\* chroma is <= 4e-6, and otherwise a hue in [0,360); L is passed through and
\* C is the length of (a, b), never negative.
PolarHueInRange ==
  dst # NoPixel =>
    /\ dst[1] = src[1]
    /\ dst[2] = polar_chroma(src[2], src[3])
    /\ dst[2] >= 0
    /\ dst[2] <= PolarEpsilon => dst[3] = 0
    /\ dst[2] > PolarEpsilon => (0 <= dst[3] /\ dst[3] < Turn)

\* ---------------------------------------------------------------------
\* process() statement by statement: tests, writes and returns (C29, C30)
\* ---------------------------------------------------------------------

\* the values of the debug selector: the six of the enumeration and values
\* below and above it
DebugModes == (-2..7) \cup { 100 }

\* the knobs of an invocation: a grade that changes the pixel, every value of
\* the debug selector, the bypass off and on, the curve gate closed and open
StepParams ==
  { [ Defaults EXCEPT !.hue_shift_deg = 90 * Deg, !.mix = F(50), !.debug_mode = d,
                      !.bypass = b, !.hue_curves_enable = c,
                      !.hue_lut_connected = c,
                      !.hue_lut_width = IF c THEN LutW ELSE 360 ] :
      d \in DebugModes, b \in BOOLEAN, c \in BOOLEAN }

\* a saturated pixel, a neutral one, one with channels outside [0, 1]
StepPixels ==
  { << F(30), F(14), F(18), One >>,
    << F(18), F(18), F(18), One >>,
    << 4 * One, F(50), -F(20), F(50) >> }

\* the statements that assign dst()
Sites ==
  { "bypass", "debug1", "debug2", "debug3", "debug4", "debug5_lut", "debug5_grey",
    "blend" }

\* the conditions of process() in the order of the source text
TestOrder == << "bypass", "debug1", "debug2", "debug3", "debug4", "debug5", "gate" >>

Returned == << "step", "return" >>

\* if (debug_mode == n)
debug_hit_AtLeast(p, n) == IF n = 5 THEN p.debug_mode >= 5 ELSE p.debug_mode = n

debug_hit(p, n) == p.debug_mode = n

\* where control goes after the assignment at a site, with the return
\* missing from the debug branches
after_write_FallThrough(site) ==
  IF site \in { "bypass", "blend" } THEN Returned ELSE << "step", "reconstruct" >>

\* where control goes after the assignment at a site: the return statement of
\* the branch, or the end of process() after the blend
after_write(site) == Returned

\* the value assigned to dst() at a site, from the locals l
site_value(site, p, lut, px, l) ==
  CASE site = "bypass" -> bypass_out(px)
    [] site = "debug1" -> grey(l.graded_L, alpha_out(px))
    [] site = "debug2" -> grey(l.graded_C, alpha_out(px))
    [] site = "debug3" -> grey(MulDiv(l.graded_H, One, 360 * Deg), alpha_out(px))
    [] site = "debug4" -> grey(l.chroma_weight, alpha_out(px))
    [] site = "debug5_lut" ->
         << sample_hue_lut(p, lut, l.lch[3])[1], sample_hue_lut(p, lut, l.lch[3])[2],
            sample_hue_lut(p, lut, l.lch[3])[3], alpha_out(px) >>
    [] site = "debug5_grey" -> grey(One \div 2, alpha_out(px))
    [] site = "blend" -> graded_pixel(p, px, l.graded_L, l.graded_C, l.graded_H)

\* the LUT image wired to the node
StepLUT == RampLUT

\* the locals of the invocation, for every knob setting and source pixel
StepLocals ==
  [ p \in StepParams |->
      [ px \in StepPixels |->
          locals(current_lch_of(px), curve_LC(p, StepLUT, current_lch_of(px)),
                 chroma_weight_of(p, current_lch_of(px)[2]),
                 total_hue_shift_of(p, StepLUT, current_lch_of(px))) ] ]

\* the value each site would assign, for every knob setting and source pixel
StepValues ==
  [ p \in StepParams |->
      [ px \in StepPixels |->
          [ site \in Sites |-> site_value(site, p, StepLUT, px, StepLocals[p][px]) ] ] ]

\* process() has read src() and stands before its first condition
StepInit ==
  /\ params \in StepParams
  /\ hueLUT = StepLUT
  /\ src \in StepPixels
  /\ dst = NoPixel
  /\ path = << "test", "bypass" >>
  /\ reads = << >>
  /\ loc = [ tests |-> << >>, locals |-> NoLocals ]

\* if (bypass)
TestBypass ==
  /\ path = << "test", "bypass" >>
  /\ loc' = [ loc EXCEPT !.tests = Append(@, "bypass") ]
  /\ path' = IF params.bypass THEN << "write", "bypass" >> ELSE << "step", "grade" >>
  /\ UNCHANGED << params, hueLUT, src, dst, reads >>

\* the forward conversion and the grade, up to graded_H
Grade ==
  /\ path = << "step", "grade" >>
  /\ loc' = [ loc EXCEPT !.locals = StepLocals[params][src] ]
  /\ path' = << "test", "debug1" >>
  /\ UNCHANGED << params, hueLUT, src, dst, reads >>

\* if (debug_mode == n), n = 1..5
TestDebug(n) ==
  /\ path = << "test", TestOrder[n + 1] >>
  /\ loc' = [ loc EXCEPT !.tests = Append(@, TestOrder[n + 1]) ]
  /\ path' = IF debug_hit(params, n)
             THEN (IF n = 5 THEN << "test", "gate" >> ELSE << "write", TestOrder[n + 1] >>)
             ELSE IF n < 5 THEN << "test", TestOrder[n + 2] >>
             ELSE << "step", "reconstruct" >>
  /\ UNCHANGED << params, hueLUT, src, dst, reads >>

\* if (hue_curves_enable && hue_lut_connected && hue_lut_width > 1), in mode 5
TestGate ==
  /\ path = << "test", "gate" >>
  /\ loc' = [ loc EXCEPT !.tests = Append(@, "gate") ]
  /\ path' = IF CurveGate(params) THEN << "write", "debug5_lut" >>
             ELSE << "write", "debug5_grey" >>
  /\ UNCHANGED << params, hueLUT, src, dst, reads >>

\* the reconstruction, the clamp and the mix, up to final_rgb
Reconstruct ==
  /\ path = << "step", "reconstruct" >>
  /\ path' = << "write", "blend" >>
  /\ UNCHANGED << params, hueLUT, src, dst, reads, loc >>

\* dst() = ...; at one of the sites
WriteDst(site) ==
  /\ path = << "write", site >>
  /\ dst' = StepValues[params][src][site]
  /\ reads' = Append(reads, site)
  /\ path' = after_write(site)
  /\ UNCHANGED << params, hueLUT, src, loc >>

StepNext ==
  \/ TestBypass
  \/ Grade
  \/ \E n \in 1..5 : TestDebug(n)
  \/ TestGate
  \/ Reconstruct
  \/ \E site \in Sites : WriteDst(site)

\* an invocation runs to its end: nothing in process() waits or loops
StepSpec == StepInit /\ [][StepNext]_vars /\ WF_vars(StepNext)

\* how many conditions of TestOrder have been evaluated when a site assigns
TestsBefore(site) ==
  CASE site = "bypass" -> 1
    [] site = "debug1" -> 2
    [] site = "debug2" -> 3
    [] site = "debug3" -> 4
    [] site = "debug4" -> 5
    [] site \in { "debug5_lut", "debug5_grey" } -> 7
    [] site = "blend" -> 6

\* at most one site has assigned dst(); the assignment is the last statement
\* executed; the conditions were evaluated in the order bypass, debug 1..5
\* (and the gate inside mode 5), each only after all earlier ones failed
WriteOnce ==
  /\ Len(reads) <= 1
  /\ (dst # NoPixel) <=> (Len(reads) = 1)
  /\ (path = Returned) <=> (Len(reads) = 1)
  /\ Len(loc.tests) <= Len(TestOrder)
  /\ loc.tests = SubSeq(TestOrder, 1, Len(loc.tests))
  /\ Len(reads) = 1 =>
       /\ reads[1] \in Sites
       /\ Len(loc.tests) = TestsBefore(reads[1])
       /\ (reads[1] = "bypass") <=> params.bypass
       /\ reads[1] = "blend" => ~params.bypass /\ params.debug_mode \notin 1..5

\* C29: every invocation of process() writes the destination pixel exactly
\* once and then finishes, on every path: the bypass path, the debug paths 1
\* to 5 (both branches of mode 5) and the blend path exclude each other, the
\* bypass is tested before any debug mode and the debug modes before the blend.
WritesOnceThenFinishes == [](WriteOnce) /\ <>(path = Returned /\ Len(reads) = 1)

\* an invocation in debug mode 5 with the gate closed has come to its return
\* past all seven conditions, with the mid-grey pixel as its one write
WritesOnceThenFinishesWitness ==
  /\ path = Returned
  /\ reads = << "debug5_grey" >>
  /\ loc.tests = TestOrder
  /\ dst = grey(One \div 2, src[4])

\* C30: a debug_mode outside 1..5 (0, negative, 6 and above) takes the
\* default path: the pixel written is the clamped-and-blended graded pixel,
\* the same as with debug_mode = 0; every value of debug_mode ends with a
\* written pixel.
UnknownModeIsDefault ==
  path = Returned =>
    /\ Len(dst) = 4
    /\ (~params.bypass /\ params.debug_mode \notin 1..5) =>
         /\ reads = << "blend" >>
         /\ dst = process([ params EXCEPT !.debug_mode = 0 ], hueLUT, src).out
         /\ dst = dst_pixel(params, hueLUT, src, loc.locals.lch[3], loc.locals.graded_L,
                            loc.locals.graded_C, loc.locals.chroma_weight,
                            loc.locals.graded_H)

\* an invocation with debug_mode = 100 has written the graded pixel, which
\* differs from the source pixel
UnknownModeIsDefaultWitness ==
  /\ path = Returned
  /\ params.debug_mode = 100
  /\ ~params.bypass
  /\ reads = << "blend" >>
  /\ dst # src

====
